---------------------------- MODULE Spec2Model ----------------------------
(***************************************************************************)
(* dropsync: two directory trees (an application's data directory and its  *)
(* mirror in the Dropbox folder) are snapshotted, compared and copied.     *)
(*                                                                         *)
(* Two programs are modelled over the same file system:                   *)
(*   Spec          src/main.rs  : main -> validate -> sync -> ask -> copy  *)
(*   SpecDirState  src/dir_state.rs : the DirState operations, driven the  *)
(*                 way test_dirstate drives them (snapshot, compare,       *)
(*                 copy_into, remove_extraneous_files_from).               *)
(*                                                                         *)
(* File system: a directory is [files, subdirs], two maps keyed by entry   *)
(* name with disjoint domains; a file is [modified, size] with `modified`  *)
(* in ticks (TicksPerSec ticks to the second).  A snapshot has the same    *)
(* shape with `modified` in whole seconds, plus `path` (and, in            *)
(* dir_state.rs, `file_filter`).                                           *)
(*                                                                         *)
(* fs::copy is modelled as on the platforms the program opens its file     *)
(* browser on (explorer.rs: windows, macos), where the copy carries the    *)
(* source's length and modification time; test_dirstate (dir_state.rs      *)
(* 172-176) relies on that.  There is no external mutation: the only       *)
(* writers of the trees are the modelled operations.                       *)
(***************************************************************************)
EXTENDS Integers, Sequences, FiniteSets, TLC

\* ------------------------------------------------------------- bounds
\* Largest modification time of a live file, in ticks.
MaxTick == 2
\* Ticks per second: Duration::as_secs drops the sub-second part.
TicksPerSec == 2
\* Largest file length.
MaxSize == 2
\* Largest number of entries (files and directories, at all depths) of a tree.
MaxEntries == 3
\* Largest number of entries of a tree when a batch of apps is run.
BatchEntries == 1

\* Entry names of a directory.
Names == {"x", "y"}
\* The two configured paths of the app: AppConfig.path, AppConfig.dropbox_path.
Roots == {"app", "dropbox"}
\* The apps of the configuration: the keys of app_configs.
Apps == {"app1", "app2"}

\* ------------------------------------------------------------- trees
EmptyMap == [n \in {} |-> 0]
EmptyDir == [files |-> EmptyMap, subdirs |-> EmptyMap]

LiveFiles == [modified : 1..MaxTick, size : 1..MaxSize]

RECURSIVE CountEntries(_)
CountEntries(t) ==
    LET RECURSIVE Sum(_)
        Sum(S) == IF S = {} THEN 0
                  ELSE LET n == CHOOSE m \in S : TRUE
                       IN 1 + CountEntries(t.subdirs[n]) + Sum(S \ {n})
    IN Cardinality(DOMAIN t.files) + Sum(DOMAIN t.subdirs)

\* One entry slot of a directory: absent, a file, or a directory.
Slots(sub) ==
    {[kind |-> "none", file |-> 0, dir |-> 0]}
    \cup {[kind |-> "file", file |-> f, dir |-> 0] : f \in LiveFiles}
    \cup {[kind |-> "dir", file |-> 0, dir |-> d] : d \in sub}

MkDir(c) ==
    [files   |-> [n \in {m \in Names : c[m].kind = "file"} |-> c[n].file],
     subdirs |-> [n \in {m \in Names : c[m].kind = "dir"} |-> c[n].dir]]

\* The directory trees of at most n entries.
RECURSIVE TreesUpTo(_)
TreesUpTo(n) ==
    IF n = 0 THEN {EmptyDir}
    ELSE LET sub == TreesUpTo(n - 1)
         IN {t \in {MkDir(c) : c \in [Names -> Slots(sub)]} : CountEntries(t) <= n}

Trees == TreesUpTo(MaxEntries)

\* The trees a batch of apps is checked with.
BatchTrees == TreesUpTo(BatchEntries)

\* ------------------------------------------------------ file_filter.rs
\* Option<Pattern>: None, or a glob of the shape "*<name>", which matches a
\* path exactly when its last component is one of the names it stands for
\* ("*" spans path separators).
NoPattern == [some |-> FALSE, names |-> {}]
Patterns == {[some |-> TRUE, names |-> {"x"}]}

matches_path(pattern, path) == path[Len(path)] \in pattern.names

\* FileFilter::default
default == [include_only |-> NoPattern]

FileFilters == {default} \cup {[include_only |-> p] : p \in Patterns}

is_file_included(self, path) ==
    IF self.include_only.some THEN matches_path(self.include_only, path) ELSE TRUE

is_file_excluded(self, path) == ~is_file_included(self, path)

\* -------------------------------------------------------- dir_state.rs
\* The live directory at `path` (<<root, name, ...>>) of the file system.
RECURSIVE Walk(_, _)
Walk(t, rel) == IF rel = <<>> THEN t ELSE Walk(t.subdirs[Head(rel)], Tail(rel))

read_dir(fs, path) == Walk(fs[Head(path)], Tail(path))

\* FileState::from_metadata: the length, and the modification time in whole
\* seconds since the epoch.
from_metadata(metadata) ==
    [modified |-> metadata.modified \div TicksPerSec, size |-> metadata.size]

RECURSIVE from_dir(_, _, _)
from_dir(path, file_filter, fs) ==
    LET dir == read_dir(fs, path)
        kept(n) == ~is_file_excluded(file_filter, Append(path, n))
    IN [path        |-> path,
        file_filter |-> file_filter,
        files       |-> [n \in {m \in DOMAIN dir.files : kept(m)} |->
                            from_metadata(dir.files[n])],
        subdirs     |-> [n \in {m \in DOMAIN dir.subdirs : kept(m)} |->
                            from_dir(Append(path, n), file_filter, fs)]]

is_empty(self) ==
    Cardinality(DOMAIN self.files) = 0 /\ Cardinality(DOMAIN self.subdirs) = 0

\* Mutant: the subdirectory counts are not compared.
RECURSIVE equal_without_count(_, _)
equal_without_count(self, other) ==
    IF self.files # other.files THEN FALSE
    ELSE \A dirname \in DOMAIN self.subdirs :
            /\ dirname \in DOMAIN other.subdirs
            /\ equal_without_count(self.subdirs[dirname], other.subdirs[dirname])

RECURSIVE are_contents_equal_to(_, _)
are_contents_equal_to(self, other) ==
    IF self.files # other.files THEN FALSE
    ELSE IF Cardinality(DOMAIN self.subdirs) # Cardinality(DOMAIN other.subdirs)
    THEN FALSE
    ELSE \A dirname \in DOMAIN self.subdirs :
            /\ dirname \in DOMAIN other.subdirs
            /\ are_contents_equal_to(self.subdirs[dirname], other.subdirs[dirname])

\* Mutant: a file as old as its counterpart counts as newer.
RECURSIVE any_contents_not_older_than(_, _)
any_contents_not_older_than(self, other) ==
    \/ \E filename \in DOMAIN self.files :
          /\ filename \in DOMAIN other.files
          /\ self.files[filename].modified >= other.files[filename].modified
    \/ \E dirname \in DOMAIN self.subdirs :
          /\ dirname \in DOMAIN other.subdirs
          /\ any_contents_not_older_than(self.subdirs[dirname], other.subdirs[dirname])

RECURSIVE are_any_contents_newer_than(_, _)
are_any_contents_newer_than(self, other) ==
    \/ \E filename \in DOMAIN self.files :
          /\ filename \in DOMAIN other.files
          /\ self.files[filename].modified > other.files[filename].modified
    \/ \E dirname \in DOMAIN self.subdirs :
          /\ dirname \in DOMAIN other.subdirs
          /\ are_any_contents_newer_than(self.subdirs[dirname], other.subdirs[dirname])

RECURSIVE are_any_contents_older_than(_, _)
are_any_contents_older_than(self, other) ==
    \/ \E filename \in DOMAIN self.files :
          /\ filename \in DOMAIN other.files
          /\ self.files[filename].modified < other.files[filename].modified
    \/ \E dirname \in DOMAIN self.subdirs :
          /\ dirname \in DOMAIN other.subdirs
          /\ are_any_contents_older_than(self.subdirs[dirname], other.subdirs[dirname])

are_contents_generally_newer_than(self, other) ==
    /\ ~is_empty(self)
    /\ ~are_any_contents_older_than(self, other)
    /\ are_any_contents_newer_than(self, other)

\* Mutant: the copy is stamped with the time it is made.
fs_copy_stamped_now(src_file) == [modified |-> MaxTick, size |-> src_file.size]

\* fs::copy(src, dest): the destination file gets the source's content
\* (its length) and modification time.
fs_copy(src_file) == [modified |-> src_file.modified, size |-> src_file.size]

\* self.copy_into(dest), where d is the live directory at dest once
\* create_dir_all(dest) has returned.  The result is the set of the runs the
\* iteration order of the two HashMaps allows, each [ok, dir]: ok = FALSE is
\* an unwrap() that panicked (fs::copy onto a directory, create_dir_all onto
\* a file), dir what the directory holds by then.
RECURSIVE copy_into(_, _, _)
copy_into(self, d, fs) ==
    LET src == read_dir(fs, self.path)
        blocked == {f \in DOMAIN self.files : f \in DOMAIN d.subdirs}
        free == DOMAIN self.files \ blocked
        copied(F) ==
            [d EXCEPT !.files = [n \in (DOMAIN d.files \cup F) |->
                IF n \in F THEN fs_copy(src.files[n]) ELSE d.files[n]]]
    IN IF blocked # {}
       THEN {[ok |-> FALSE, dir |-> copied(F)] : F \in SUBSET free}
       ELSE
         LET d1 == copied(free)
             D == DOMAIN self.subdirs
             sub(n) ==
                 IF n \in DOMAIN d1.files
                 THEN {[ok |-> FALSE, made |-> FALSE, dir |-> EmptyDir]}
                 ELSE {[ok |-> o.ok, made |-> TRUE, dir |-> o.dir] :
                         o \in copy_into(self.subdirs[n],
                                         IF n \in DOMAIN d1.subdirs
                                         THEN d1.subdirs[n] ELSE EmptyDir,
                                         fs)}
             failing == {n \in D : \E o \in sub(n) : ~o.ok}
             put(c) ==
                 [d1 EXCEPT !.subdirs =
                     [n \in (DOMAIN d1.subdirs \cup {m \in DOMAIN c : c[m].made}) |->
                         IF n \in DOMAIN c THEN c[n].dir ELSE d1.subdirs[n]]]
             done(P) == [n \in P |-> CHOOSE o \in sub(n) : o.ok]
         IN IF failing = {}
            THEN {[ok |-> TRUE, dir |-> put(done(D))]}
            ELSE UNION {
                   {[ok |-> FALSE,
                     dir |-> put([n \in kp[2] \cup {kp[1]} |->
                                    IF n = kp[1] THEN o ELSE done(kp[2])[n]])] :
                      o \in {b \in sub(kp[1]) : ~b.ok}} :
                   kp \in failing \X SUBSET (D \ failing)}

\* Mutant: the walk does not consult the file filter.
RECURSIVE remove_extraneous_unfiltered(_, _, _)
remove_extraneous_unfiltered(self, root, fs) ==
    LET dir == read_dir(fs, root)
        keptFiles == {n \in DOMAIN dir.files : n \in DOMAIN self.files}
        keptDirs == {n \in DOMAIN dir.subdirs : n \in DOMAIN self.subdirs}
    IN [files   |-> [n \in keptFiles |-> dir.files[n]],
        subdirs |-> [n \in keptDirs |->
                        remove_extraneous_unfiltered(
                            self.subdirs[n], Append(root, n), fs)]]

\* self.remove_extraneous_files_from(root): the live directory at root
\* afterwards.
RECURSIVE remove_extraneous_files_from(_, _, _)
remove_extraneous_files_from(self, root, fs) ==
    LET dir == read_dir(fs, root)
        skipped(n) == is_file_excluded(self.file_filter, Append(root, n))
        keptFiles == {n \in DOMAIN dir.files :
                        skipped(n) \/ n \in DOMAIN self.files}
        keptDirs == {n \in DOMAIN dir.subdirs :
                        skipped(n) \/ n \in DOMAIN self.subdirs}
    IN [files   |-> [n \in keptFiles |-> dir.files[n]],
        subdirs |-> [n \in keptDirs |->
                        IF skipped(n) THEN dir.subdirs[n]
                        ELSE remove_extraneous_files_from(
                                 self.subdirs[n], Append(root, n), fs)]]

\* ------------------------------------------------------------ main.rs
\* main.rs has its own FileState and DirState (no file filter).
main_from_metadata(metadata) ==
    [modified |-> metadata.modified \div TicksPerSec, size |-> metadata.size]

RECURSIVE main_from_dir(_, _)
main_from_dir(path, fs) ==
    LET dir == read_dir(fs, path)
    IN [path    |-> path,
        files   |-> [n \in DOMAIN dir.files |-> main_from_metadata(dir.files[n])],
        subdirs |-> [n \in DOMAIN dir.subdirs |-> main_from_dir(Append(path, n), fs)]]

main_is_empty(self) ==
    Cardinality(DOMAIN self.files) = 0 /\ Cardinality(DOMAIN self.subdirs) = 0

RECURSIVE main_are_contents_equal_to(_, _)
main_are_contents_equal_to(self, other) ==
    IF self.files # other.files THEN FALSE
    ELSE IF Cardinality(DOMAIN self.subdirs) # Cardinality(DOMAIN other.subdirs)
    THEN FALSE
    ELSE \A dirname \in DOMAIN self.subdirs :
            /\ dirname \in DOMAIN other.subdirs
            /\ main_are_contents_equal_to(self.subdirs[dirname], other.subdirs[dirname])

\* Mutant: only this level's files are compared, subdirectories are skipped.
at_least_as_recent_files_only(self, other) ==
    \A filename \in DOMAIN self.files :
        filename \in DOMAIN other.files
            => ~(self.files[filename].modified < other.files[filename].modified)

RECURSIVE are_contents_at_least_as_recent_as(_, _)
are_contents_at_least_as_recent_as(self, other) ==
    /\ \A filename \in DOMAIN self.files :
          filename \in DOMAIN other.files
              => ~(self.files[filename].modified < other.files[filename].modified)
    /\ \A dirname \in DOMAIN self.subdirs :
          dirname \in DOMAIN other.subdirs
              => are_contents_at_least_as_recent_as(self.subdirs[dirname],
                                                    other.subdirs[dirname])

\* The same body as dir_state.rs's copy_into.
main_copy_into(self, d, fs) == copy_into(self, d, fs)

\* Mutant: only the app's own path is checked.
validate_app_path_only(ex) == ex["app"]

\* AppConfig::validate: both ensure_path_exists calls return.
validate(ex) == ex["app"] /\ ex["dropbox"]

\* Mutant: the third branch guards on the app's snapshot being non-empty.
sync_guard_on_app(a, b) ==
    IF main_are_contents_equal_to(a, b) THEN "AlreadySynced"
    ELSE IF ~main_is_empty(a) /\ are_contents_at_least_as_recent_as(a, b)
    THEN "AppNewerThanDropbox"
    ELSE IF ~main_is_empty(a) /\ are_contents_at_least_as_recent_as(b, a)
    THEN "DropboxNewerThanApp"
    ELSE IF main_is_empty(a) /\ main_is_empty(b) THEN "BothEmpty"
    ELSE "Conflict"

\* The branch AppConfig::sync takes on the two snapshots.
sync(a, b) ==
    IF main_are_contents_equal_to(a, b) THEN "AlreadySynced"
    ELSE IF ~main_is_empty(a) /\ are_contents_at_least_as_recent_as(a, b)
    THEN "AppNewerThanDropbox"
    ELSE IF ~main_is_empty(b) /\ are_contents_at_least_as_recent_as(b, a)
    THEN "DropboxNewerThanApp"
    ELSE IF main_is_empty(a) /\ main_is_empty(b) THEN "BothEmpty"
    ELSE "Conflict"

\* ------------------------------------------------------------- ask.rs
\* A reply is the sequence of its characters.
Replies == {<<"y", "u", "p">>, <<"Y", "E", "S">>, <<"n", "a", "h">>,
            <<"N", "O">>, <<"b", "l", "a", "r", "g">>}

LowerCase == [Y |-> "y", E |-> "e", S |-> "s", N |-> "n", O |-> "o"]

to_lowercase(value) ==
    [i \in 1..Len(value) |->
        IF value[i] \in DOMAIN LowerCase THEN LowerCase[value[i]] ELSE value[i]]

starts_with(value, c) == Len(value) >= 1 /\ value[1] = c

\* Mutant: the reply is matched as typed, without to_lowercase.
parse_yes_or_no_as_typed(value) ==
    IF starts_with(value, "y") THEN "Some(true)"
    ELSE IF starts_with(value, "n") THEN "Some(false)"
    ELSE "None"

\* Option<bool>: "Some(true)", "Some(false)" or "None".
parse_yes_or_no(value) ==
    LET lower == to_lowercase(value)
    IN IF starts_with(lower, "y") THEN "Some(true)"
       ELSE IF starts_with(lower, "n") THEN "Some(false)"
       ELSE "None"


\* --------------------------------------------------------------- state
VARIABLES
    fs,          \* the live directory at each of the two paths
    fs0,         \* fs as the run found it
    pc,          \* where the program is
    file_filter, \* the FileFilter the DirState operations are driven with
    src_state,   \* DirState of the source directory
    tmp_state,   \* DirState of the destination directory, when src_state was taken
    cmp,         \* what the comparisons of src_state and tmp_state returned
    exists,      \* whether each of the two paths exists
    dir_state,          \* main.rs sync: DirState of AppConfig.path
    dropbox_dir_state,  \* main.rs sync: DirState of AppConfig.dropbox_path
    outcome,     \* the branch sync took
    reply,       \* the last line the operator typed at the prompt
    disk,        \* main's loop: the live directories of every configured app
    disk0,       \* disk as the run found it
    present,     \* main's loop: whether each path of every app exists
    todo,        \* main's loop: the apps app_configs.values() has yet to yield
    config,      \* main's loop: the app of the current iteration
    trail        \* main's loop: the calls made so far, as <<app, call>>

vars == <<fs, fs0, pc, file_filter, src_state, tmp_state, cmp,
          exists, dir_state, dropbox_dir_state, outcome, reply,
          disk, disk0, present, todo, config, trail>>

dirVars == <<file_filter, src_state, tmp_state, cmp>>
mainVars == <<exists, dir_state, dropbox_dir_state, outcome, reply>>
batchVars == <<disk, disk0, present, todo, config, trail>>

\* No batch is under way.
NoBatch ==
    /\ disk = EmptyMap
    /\ disk0 = EmptyMap
    /\ present = EmptyMap
    /\ todo = {}
    /\ config = "none"
    /\ trail = {}

NoState == [path |-> <<>>, file_filter |-> default, files |-> EmptyMap, subdirs |-> EmptyMap]

NoDirState == [path |-> <<>>, files |-> EmptyMap, subdirs |-> EmptyMap]

NoCmp == [equal_ab |-> FALSE, equal_ba |-> FALSE, newer_ab |-> FALSE, newer_ba |-> FALSE,
          older_ab |-> FALSE, older_ba |-> FALSE, gnewer_ab |-> FALSE, gnewer_ba |-> FALSE]

src_dir == <<"app">>
tmp_dir == <<"dropbox">>

\* ------------------------------------------- dir_state.rs, driven
InitDirState ==
    /\ fs \in [Roots -> Trees]
    /\ fs0 = fs
    /\ pc = "t_start"
    /\ file_filter \in FileFilters
    /\ src_state = NoState
    /\ tmp_state = NoState
    /\ cmp = NoCmp
    /\ exists = [r \in Roots |-> TRUE]
    /\ dir_state = NoDirState
    /\ dropbox_dir_state = NoDirState
    /\ outcome = "none"
    /\ reply = <<>>
    /\ NoBatch

\* DirState::from_dir of both directories, and every comparison of the two.
T_FromDir ==
    /\ pc = "t_start"
    /\ LET a == from_dir(src_dir, file_filter, fs)
           b == from_dir(tmp_dir, file_filter, fs)
       IN /\ src_state' = a
          /\ tmp_state' = b
          /\ cmp' = [equal_ab  |-> are_contents_equal_to(a, b),
                     equal_ba  |-> are_contents_equal_to(b, a),
                     newer_ab  |-> are_any_contents_newer_than(a, b),
                     newer_ba  |-> are_any_contents_newer_than(b, a),
                     older_ab  |-> are_any_contents_older_than(a, b),
                     older_ba  |-> are_any_contents_older_than(b, a),
                     gnewer_ab |-> are_contents_generally_newer_than(a, b),
                     gnewer_ba |-> are_contents_generally_newer_than(b, a)]
    /\ pc' = "t_loaded"
    /\ UNCHANGED <<batchVars, fs, fs0, file_filter, mainVars>>

\* src_state.copy_into(&tmp_dir)
T_CopyInto ==
    /\ pc = "t_loaded"
    /\ \E o \in copy_into(src_state, fs["dropbox"], fs) :
          /\ fs' = [fs EXCEPT !["dropbox"] = o.dir]
          /\ pc' = IF o.ok THEN "t_copied" ELSE "t_panicked"
    /\ UNCHANGED <<batchVars, fs0, dirVars, mainVars>>

\* src_state.remove_extraneous_files_from(&tmp_dir), after a copy or on its own
T_RemoveExtraneous ==
    /\ pc \in {"t_loaded", "t_copied"}
    /\ fs' = [fs EXCEPT !["dropbox"] =
                 remove_extraneous_files_from(src_state, tmp_dir, fs)]
    /\ pc' = IF pc = "t_copied" THEN "t_synced" ELSE "t_pruned"
    /\ UNCHANGED <<batchVars, fs0, dirVars, mainVars>>

NextDirState == T_FromDir \/ T_CopyInto \/ T_RemoveExtraneous

SpecDirState == InitDirState /\ [][NextDirState]_vars

\* ----------------------------------------------------- main.rs, the run
\* A path that does not exist holds nothing.
Init ==
    /\ exists \in [Roots -> BOOLEAN]
    /\ fs \in [Roots -> Trees]
    /\ \A r \in Roots : ~exists[r] => fs[r] = EmptyDir
    /\ fs0 = fs
    /\ pc = "main"
    /\ dir_state = NoDirState
    /\ dropbox_dir_state = NoDirState
    /\ outcome = "none"
    /\ reply = <<>>
    /\ file_filter = default
    /\ src_state = NoState
    /\ tmp_state = NoState
    /\ cmp = NoCmp
    /\ NoBatch

\* main: config.validate()
Validate ==
    /\ pc = "main"
    /\ pc' = IF validate(exists) THEN "sync" ELSE "panicked"
    /\ UNCHANGED <<batchVars, fs, fs0, dirVars, mainVars>>

\* AppConfig::sync up to the prompt: both snapshots, and the branch taken.
Sync ==
    /\ pc = "sync"
    /\ LET a == main_from_dir(<<"app">>, fs)
           b == main_from_dir(<<"dropbox">>, fs)
       IN /\ dir_state' = a
          /\ dropbox_dir_state' = b
          /\ outcome' = sync(a, b)
          /\ pc' = IF sync(a, b) \in {"AppNewerThanDropbox", "DropboxNewerThanApp"}
                   THEN "ask" ELSE "done"
    /\ UNCHANGED <<batchVars, fs, fs0, dirVars, exists, reply>>

\* copy_files_with_confirmation: one turn of ask_yes_or_no's loop, and the
\* copy once the reply parses as yes.
Ask ==
    /\ pc = "ask"
    /\ \E r \in Replies :
          /\ reply' = r
          /\ LET from_dir_ == IF outcome = "AppNewerThanDropbox"
                              THEN dir_state ELSE dropbox_dir_state
                 to_dir == IF outcome = "AppNewerThanDropbox"
                           THEN "dropbox" ELSE "app"
             IN CASE parse_yes_or_no(r) = "None" ->
                       /\ pc' = "ask"
                       /\ fs' = fs
                  [] parse_yes_or_no(r) = "Some(false)" ->
                       /\ pc' = "done"
                       /\ fs' = fs
                  [] parse_yes_or_no(r) = "Some(true)" ->
                       \E o \in main_copy_into(from_dir_, fs[to_dir], fs) :
                          /\ fs' = [fs EXCEPT ![to_dir] = o.dir]
                          /\ pc' = IF o.ok THEN "done" ELSE "panicked"
    /\ UNCHANGED <<batchVars, fs0, dirVars, exists, dir_state, dropbox_dir_state, outcome>>

\* The program is run again on the trees the last run left.
Rerun ==
    /\ pc \in {"done", "panicked"}
    /\ pc' = "main"
    /\ fs0' = fs
    /\ dir_state' = NoDirState
    /\ dropbox_dir_state' = NoDirState
    /\ outcome' = "none"
    /\ reply' = <<>>
    /\ UNCHANGED <<batchVars, fs, dirVars, exists>>

Next == Validate \/ Sync \/ Ask \/ Rerun

Spec == Init /\ [][Next]_vars

\* ------------------------------------------- main.rs, a batch of apps
InitBatch ==
    /\ present \in [Apps -> [Roots -> BOOLEAN]]
    /\ disk \in [Apps -> [Roots -> BatchTrees]]
    /\ \A a \in Apps : \A r \in Roots : ~present[a][r] => disk[a][r] = EmptyDir
    /\ disk0 = disk
    /\ todo = Apps
    /\ config = "none"
    /\ trail = {}
    /\ pc = "main"
    /\ dir_state = NoDirState
    /\ dropbox_dir_state = NoDirState
    /\ outcome = "none"
    /\ reply = <<>>
    /\ fs = [r \in Roots |-> EmptyDir]
    /\ fs0 = fs
    /\ exists = [r \in Roots |-> FALSE]
    /\ file_filter = default
    /\ src_state = NoState
    /\ tmp_state = NoState
    /\ cmp = NoCmp

\* main: app_configs.values() yields the next app, in no particular order,
\* and config.validate() is called on it.
B_Validate ==
    /\ pc = "main"
    /\ \E a \in todo :
          /\ config' = a
          /\ todo' = todo \ {a}
          /\ trail' = trail \cup {<<a, "validate">>}
          /\ pc' = IF validate(present[a]) THEN "sync" ELSE "panicked"
    /\ dir_state' = NoDirState
    /\ dropbox_dir_state' = NoDirState
    /\ outcome' = "none"
    /\ reply' = <<>>
    /\ UNCHANGED <<fs, fs0, exists, dirVars, disk, disk0, present>>

\* main: config.sync() up to the prompt. fs::read_dir(path).unwrap() panics
\* on a path that does not exist.
B_Sync ==
    /\ pc = "sync"
    /\ trail' = trail \cup {<<config, "from_dir">>}
    /\ IF present[config]["app"] /\ present[config]["dropbox"]
       THEN LET a == main_from_dir(<<"app">>, disk[config])
                b == main_from_dir(<<"dropbox">>, disk[config])
            IN /\ dir_state' = a
               /\ dropbox_dir_state' = b
               /\ outcome' = sync(a, b)
               /\ pc' = IF sync(a, b) \in {"AppNewerThanDropbox", "DropboxNewerThanApp"}
                        THEN "ask" ELSE "main"
       ELSE /\ pc' = "panicked"
            /\ UNCHANGED <<dir_state, dropbox_dir_state, outcome>>
    /\ UNCHANGED <<fs, fs0, exists, dirVars, reply, disk, disk0, present, todo, config>>

\* main: config.sync() from the prompt on, as Ask.
B_Ask ==
    /\ pc = "ask"
    /\ \E r \in Replies :
          /\ reply' = r
          /\ LET from_dir_ == IF outcome = "AppNewerThanDropbox"
                              THEN dir_state ELSE dropbox_dir_state
                 to_dir == IF outcome = "AppNewerThanDropbox"
                           THEN "dropbox" ELSE "app"
             IN CASE parse_yes_or_no(r) = "None" ->
                       /\ pc' = "ask"
                       /\ UNCHANGED <<disk, trail>>
                  [] parse_yes_or_no(r) = "Some(false)" ->
                       /\ pc' = "main"
                       /\ UNCHANGED <<disk, trail>>
                  [] parse_yes_or_no(r) = "Some(true)" ->
                       /\ trail' = trail \cup {<<config, "copy_into">>}
                       /\ \E o \in main_copy_into(from_dir_, disk[config][to_dir],
                                                  disk[config]) :
                             /\ disk' = [disk EXCEPT ![config][to_dir] = o.dir]
                             /\ pc' = IF o.ok THEN "main" ELSE "panicked"
    /\ UNCHANGED <<fs, fs0, exists, dirVars, dir_state, dropbox_dir_state, outcome,
                   disk0, present, todo, config>>

\* main returns once the loop has gone through every app.
B_Exit ==
    /\ pc = "main"
    /\ todo = {}
    /\ pc' = "exit"
    /\ UNCHANGED <<fs, fs0, exists, dirVars, dir_state, dropbox_dir_state, outcome,
                   reply, batchVars>>

NextBatch == B_Validate \/ B_Sync \/ B_Ask \/ B_Exit

SpecBatch == InitBatch /\ [][NextBatch]_vars

\* ------------------------------------------------- what the claims say
\* The relative paths of the files of a snapshot, at every depth.
RECURSIVE FilePaths(_)
FilePaths(t) ==
    {<<n>> : n \in DOMAIN t.files}
    \cup UNION {{<<n>> \o q : q \in FilePaths(t.subdirs[n])} : n \in DOMAIN t.subdirs}

\* The relative paths of the subdirectories of a snapshot, at every depth.
RECURSIVE DirPaths(_)
DirPaths(t) ==
    {<<n>> : n \in DOMAIN t.subdirs}
    \cup UNION {{<<n>> \o q : q \in DirPaths(t.subdirs[n])} : n \in DOMAIN t.subdirs}

RECURSIVE FileAt(_, _)
FileAt(t, q) ==
    IF Len(q) = 1 THEN t.files[q[1]] ELSE FileAt(t.subdirs[Head(q)], Tail(q))

SharedFiles(a, b) == FilePaths(a) \cap FilePaths(b)

\* Some file at the same relative path in both is strictly newer in a.
SharedNewer(a, b) ==
    \E q \in SharedFiles(a, b) : FileAt(a, q).modified > FileAt(b, q).modified

\* The files shared by a and b give mixed evidence.
MixedEvidence(a, b) == SharedNewer(a, b) /\ SharedNewer(b, a)

\* The file names of a snapshot, whatever the depth.
NamesOfFiles(t) == {q[Len(q)] : q \in FilePaths(t)}

Synced == outcome # "none"
Confirmed == parse_yes_or_no(reply) = "Some(true)"
FreshApp == main_from_dir(<<"app">>, fs)
FreshDropbox == main_from_dir(<<"dropbox">>, fs)

\* The classification of section 4.5, rule by rule.
ClaimedOutcome(a, b) ==
    IF are_contents_equal_to(a, b) THEN "AlreadySynced"
    ELSE IF are_contents_generally_newer_than(a, b) THEN "AppNewerThanDropbox"
    ELSE IF are_contents_generally_newer_than(b, a) THEN "DropboxNewerThanApp"
    ELSE IF is_empty(a) /\ is_empty(b) THEN "BothEmpty"
    ELSE "Conflict"

\* C1: sync classifies the two snapshots by the five rules in their order:
\* equal, app generally newer, mirror generally newer, both empty, conflict.
C1_SyncClassifies ==
    Synced => outcome = ClaimedOutcome(dir_state, dropbox_dir_state)

\* C2: two non-empty trees that share no file name at any depth (and are not
\* the same tree of empty directories, which rule 1 takes) are a Conflict:
\* neither side is reported newer.
C2_DisjointIsConflict ==
    (/\ Synced
     /\ ~is_empty(dir_state)
     /\ ~is_empty(dropbox_dir_state)
     /\ NamesOfFiles(dir_state) \cap NamesOfFiles(dropbox_dir_state) = {}
     /\ ~are_contents_equal_to(dir_state, dropbox_dir_state))
        => outcome = "Conflict"

\* C3: an empty app tree against a non-empty mirror is DropboxNewerThanApp,
\* and once the operator has said yes the app path holds the mirror's tree
\* and the mirror is as it was.
C3_EmptyAppTakesDropbox ==
    (Synced /\ main_is_empty(dir_state) /\ ~main_is_empty(dropbox_dir_state))
        => /\ outcome = "DropboxNewerThanApp"
           /\ pc # "panicked"
           /\ (pc = "done" /\ Confirmed)
                 => /\ fs["app"] = fs0["dropbox"]
                    /\ fs["dropbox"] = fs0["dropbox"]
                    /\ main_are_contents_equal_to(FreshApp, dropbox_dir_state)

C3_Witness ==
    /\ pc = "done"
    /\ outcome = "DropboxNewerThanApp"
    /\ Confirmed
    /\ fs0["app"] = EmptyDir
    /\ FilePaths(fs["app"]) = {<<"x">>, <<"y", "x">>}

\* C4: when the shared files give mixed evidence neither snapshot is
\* generally newer than the other, sync reports Conflict and returns, and
\* both trees are as the run found them.
C4_MixedIsConflict ==
    (Synced /\ MixedEvidence(dir_state, dropbox_dir_state))
        => /\ ~are_contents_generally_newer_than(dir_state, dropbox_dir_state)
           /\ ~are_contents_generally_newer_than(dropbox_dir_state, dir_state)
           /\ outcome = "Conflict"
           /\ pc = "done"
           /\ fs = fs0

C4_Witness ==
    /\ outcome = "Conflict"
    /\ pc = "done"
    /\ <<"x">> \in SharedFiles(dir_state, dropbox_dir_state)
    /\ FileAt(dir_state, <<"x">>).modified > FileAt(dropbox_dir_state, <<"x">>).modified
    /\ <<"y", "x">> \in SharedFiles(dir_state, dropbox_dir_state)
    /\ FileAt(dir_state, <<"y", "x">>).modified
          < FileAt(dropbox_dir_state, <<"y", "x">>).modified

\* The fresh snapshot of the destination directory, under the same filter.
FreshTmp == from_dir(tmp_dir, file_filter, fs)

\* C5: whatever the destination holds, copy_into followed by
\* remove_extraneous_files_from completes, and the fresh snapshot of the
\* destination is equal to the source's.
C5_CopyThenPruneConverges ==
    /\ pc # "t_panicked"
    /\ pc = "t_synced" => are_contents_equal_to(src_state, FreshTmp)

\* C6: into an empty destination, copy_into alone, and copy_into followed by
\* remove_extraneous_files_from, complete and leave a destination whose
\* snapshot is equal to the source's in both argument orders.
C6_RoundTrip ==
    fs0["dropbox"] = EmptyDir
        => /\ pc # "t_panicked"
           /\ pc \in {"t_copied", "t_synced"}
                 => /\ are_contents_equal_to(src_state, FreshTmp)
                    /\ are_contents_equal_to(FreshTmp, src_state)

C6_Witness ==
    /\ pc = "t_synced"
    /\ fs0["dropbox"] = EmptyDir
    /\ FilePaths(src_state) = {<<"x">>, <<"y", "x">>}
    /\ FilePaths(FreshTmp) = {<<"x">>, <<"y", "x">>}
    /\ FileAt(src_state, <<"x">>).modified # FileAt(src_state, <<"y", "x">>).modified

\* C7: once sync has reported one side newer and the operator has said yes,
\* the fresh snapshots of the two trees are equal and sync on them reports
\* AlreadySynced.
C7_SyncConverges ==
    (/\ pc = "done"
     /\ outcome \in {"AppNewerThanDropbox", "DropboxNewerThanApp"}
     /\ Confirmed)
        => /\ main_are_contents_equal_to(FreshApp, FreshDropbox)
           /\ sync(FreshApp, FreshDropbox) = "AlreadySynced"

\* C8: sync does not return from a Conflict without the operator having been
\* asked which side to use (app, mirror, or open both in the file browser).
C8_ConflictAsksOperator ==
    (pc = "done" /\ outcome = "Conflict") => reply # <<>>

\* The entries of a snapshot: each relative path with its kind.
Entries(t) ==
    {<<"file", q>> : q \in FilePaths(t)} \cup {<<"dir", q>> : q \in DirPaths(t)}

Compared == pc # "t_start"

\* C9: are_contents_equal_to gives the same answer in both argument orders,
\* and a file or subdirectory that only one side has makes both answers false.
C9_EqualSymmetric ==
    Compared
        => /\ cmp.equal_ab = cmp.equal_ba
           /\ Entries(src_state) # Entries(tmp_state)
                 => (~cmp.equal_ab /\ ~cmp.equal_ba)

C9_Witness ==
    /\ Compared
    /\ src_state.files = tmp_state.files
    /\ DOMAIN src_state.files = {"x"}
    /\ DOMAIN src_state.subdirs = {}
    /\ DOMAIN tmp_state.subdirs = {"y"}
    /\ ~cmp.equal_ab
    /\ ~cmp.equal_ba

\* C10: are_any_contents_newer_than(a, b) holds exactly when some file at the
\* same relative path in both trees is strictly newer in a, and
\* are_any_contents_older_than is its mirror.
C10_NewerIffSharedFileNewer ==
    Compared
        => /\ cmp.newer_ab = SharedNewer(src_state, tmp_state)
           /\ cmp.newer_ba = SharedNewer(tmp_state, src_state)
           /\ cmp.older_ab = SharedNewer(tmp_state, src_state)
           /\ cmp.older_ba = SharedNewer(src_state, tmp_state)
           /\ cmp.newer_ab = cmp.older_ba
           /\ cmp.newer_ba = cmp.older_ab

C10_Witness ==
    /\ Compared
    /\ cmp.newer_ab
    /\ ~cmp.newer_ba
    /\ SharedFiles(src_state, tmp_state) = {<<"y", "x">>}
    /\ FileAt(src_state, <<"y", "x">>).modified > FileAt(tmp_state, <<"y", "x">>).modified
    /\ "x" \in DOMAIN src_state.files
    /\ "x" \notin DOMAIN tmp_state.files

\* The reply begins with the letter c, in either case.
BeginsWith(value, c) == Len(value) >= 1 /\ value[1] \in c

SaidYes == BeginsWith(reply, {"y", "Y"})
SaidNo == BeginsWith(reply, {"n", "N"})

\* C12: once sync has reported DropboxNewerThanApp, the app tree differs from
\* what the run found only after a reply that begins with y or Y; a reply
\* that begins with n or N ends the run with both trees as found; any other
\* reply leaves the program at the prompt with both trees as found; the
\* mirror is never written.
C12_DropboxToAppIsGated ==
    (outcome = "DropboxNewerThanApp")
        => /\ fs["app"] # fs0["app"] => SaidYes
           /\ fs["dropbox"] = fs0["dropbox"]
           /\ SaidNo => (pc = "done" /\ fs = fs0)
           /\ (reply # <<>> /\ ~SaidYes /\ ~SaidNo) => (pc = "ask" /\ fs = fs0)
           /\ pc = "ask" => (fs = fs0 /\ ~SaidYes /\ ~SaidNo)

C12_Witness ==
    /\ outcome = "DropboxNewerThanApp"
    /\ pc = "done"
    /\ reply = <<"Y", "E", "S">>
    /\ "x" \in DOMAIN fs0["app"].files
    /\ "x" \in DOMAIN fs0["dropbox"].files
    /\ fs0["app"].files["x"] # fs0["dropbox"].files["x"]
    /\ fs["app"].files["x"] = fs0["dropbox"].files["x"]

\* The entry at relative path q of the pruned directory passes the filter of
\* the reference snapshot.
Passes(q) == is_file_included(src_state.file_filter, tmp_dir \o q)

\* The directories above the entry at q, outermost first.
Above(q) == {SubSeq(q, 1, i) : i \in 1..(Len(q) - 1)}

\* The walk gets to the entry at q: every directory above it passes the
\* filter and is a subdirectory of the reference snapshot.
Visited(q) == \A p \in Above(q) : Passes(p) /\ p \in DirPaths(src_state)

\* The entry is one the walk removes by name: it passes the filter and the
\* reference snapshot has no entry of its kind and name at that depth.
Extraneous(e) == Visited(e[2]) /\ Passes(e[2]) /\ e \notin Entries(src_state)

\* The entry lies in a directory that the walk removes whole.
UnderRemoved(e) == \E p \in Above(e[2]) : Extraneous(<<"dir", p>>)

Pruned == pc = "t_pruned"

\* The entries of the pruned directory that are there no more.
Gone == Entries(fs0["dropbox"]) \ Entries(fs["dropbox"])

RuleHolds(i, a, b) ==
    CASE i = 1 -> main_are_contents_equal_to(a, b)
      [] i = 2 -> ~main_is_empty(a) /\ are_contents_at_least_as_recent_as(a, b)
      [] i = 3 -> ~main_is_empty(b) /\ are_contents_at_least_as_recent_as(b, a)

RuleOutcome(i) ==
    CASE i = 1 -> "AlreadySynced"
      [] i = 2 -> "AppNewerThanDropbox"
      [] i = 3 -> "DropboxNewerThanApp"

AtMostOne(S) == Cardinality({i \in DOMAIN S : S[i]}) <= 1

\* C14: of "equal", "A generally newer than B" and "B generally newer than
\* A" at most one is true of the two snapshots; whichever of rules 1 to 3
\* sync tested first, its report would be the one it gave; and the
\* conditions of the two copy directions do not hold together.
C14_RulesExclusive ==
    Synced =>
        LET a == dir_state
            b == dropbox_dir_state
        IN /\ AtMostOne(<<are_contents_equal_to(a, b),
                          are_contents_generally_newer_than(a, b),
                          are_contents_generally_newer_than(b, a)>>)
           /\ \A i \in 1..3 : RuleHolds(i, a, b) => outcome = RuleOutcome(i)
           /\ ~(RuleHolds(2, a, b) /\ RuleHolds(3, a, b))

\* Both paths of the app exist.
BothPresent(a) == present[a]["app"] /\ present[a]["dropbox"]

\* The calls made so far for the app.
CallsFor(a) == {t[2] : t \in {u \in trail : u[1] = a}}

\* C11: in a batch, a snapshot or a copy is attempted for an app only after
\* its validation and with both its paths present; once an app with a
\* missing path has been validated, the run has stopped at that app, nothing
\* but the validation was attempted for it and its trees are as found, and
\* every app not yet reached has had no call and has its trees as found.
C11_ValidateBeforeSync ==
    /\ \A a \in Apps :
          (CallsFor(a) \cap {"from_dir", "copy_into"}) # {}
              => ("validate" \in CallsFor(a) /\ BothPresent(a))
    /\ \A a \in Apps :
          ("validate" \in CallsFor(a) /\ ~BothPresent(a))
              => /\ pc = "panicked"
                 /\ config = a
                 /\ CallsFor(a) = {"validate"}
                 /\ disk[a] = disk0[a]
                 /\ \A b \in todo : CallsFor(b) = {} /\ disk[b] = disk0[b]

\* The first app has a missing mirror path; the other app, whose mirror
\* holds a file its own directory lacks, is not reached.
C11_Witness ==
    /\ pc = "panicked"
    /\ config = "app2"
    /\ present[config]["app"] /\ ~present[config]["dropbox"]
    /\ todo = {"app1"}
    /\ BothPresent("app1")
    /\ disk["app1"]["app"] = EmptyDir
    /\ "x" \in DOMAIN disk["app1"]["dropbox"].files

=============================================================================
